---------------------------- MODULE Spec2Model ----------------------------
(***************************************************************************)
(* Model of the CSS selector builder of src/src/05-objects-tasks.js.       *)
(*                                                                         *)
(* JavaScript arrays are reference objects, so the model keeps a heap of   *)
(* arrays (arrays) and a heap of CssSelectorBuilder objects (builders)     *)
(* whose fields hold array references.  Array.prototype.slice allocates a  *)
(* new array, Array.prototype.push writes through a reference.             *)
(***************************************************************************)
EXTENDS Integers, Sequences, FiniteSets, TLC

\* Largest number of CssSelectorBuilder objects a behaviour allocates.
MaxBuilders == 4

\* Largest width or height given to a Rectangle.
MaxSide == 3

\* Argument strings handed to the add operations.
Values == {"a"}

\* Combinator strings handed to combine (the descendant space and '+').
Combinators == {" ", "+"}

VARIABLES
    arrays,     \* heap of arrays: reference -> sequence of items
    builders,   \* heap of builders: index -> [callStack, resultsArr] references
    calls,      \* history: for each builder the chain of calls that built it
    last,       \* the call made by the last step (method and receiver) and how
                \* it ended: the error thrown, the builder or the string returned
    rectangle,  \* the Rectangle object: its fields width and height, and the
                \* constructor arguments its getArea closure has in scope
    area        \* <<n>> when the last getArea() returned n, <<>> before any call

vars == <<arrays, builders, calls, last, rectangle, area>>

DuplicateError ==
    "Element, id and pseudo-element should not occur more then one time inside the selector"

OrderError ==
    "Selector parts should be arranged in the following order: element, id, class, attribute, pseudo-class, pseudo-element"

\* The completion of a call that threw nothing.
NoError == ""

AddOps == {"element", "id", "class", "attr", "pseudoClass", "pseudoElement"}

-----------------------------------------------------------------------------
(* Array primitives *)

\* Mutant of slice: the copy is forgotten and the same array is used.
slice_Alias(heap, ref) ==
    [heap |-> heap, ref |-> ref]

\* Array.prototype.slice(): a new array holding the same items.
slice(heap, ref) ==
    [heap |-> Append(heap, heap[ref]), ref |-> Len(heap) + 1]

\* Array.prototype.push(item): writes through the reference.
push(heap, ref, item) ==
    [heap EXCEPT ![ref] = Append(@, item)]

\* The array literal []: a new empty array.
emptyArray(heap) ==
    [heap |-> Append(heap, <<>>), ref |-> Len(heap) + 1]

\* Mutant of find: the last item that satisfies the predicate.
find_Last(arr, passes) ==
    LET hits == {i \in DOMAIN arr : passes[i]}
    IN  IF hits = {} THEN <<>>
        ELSE <<arr[CHOOSE i \in hits : \A j \in hits : i >= j]>>

\* Array.prototype.find(predicate), with passes[i] the predicate's result
\* on item i: <<item>> for the first item that satisfies the predicate,
\* <<>> for undefined.
find(arr, passes) ==
    LET hits == {i \in DOMAIN arr : passes[i]}
    IN  IF hits = {} THEN <<>>
        ELSE <<arr[CHOOSE i \in hits : \A j \in hits : i <= j]>>

\* found === n: false for undefined.
StrictEquals(found, n) == found # <<>> /\ found[1] = n

\* found < n: undefined converts to NaN and the comparison is false.
LessThan(found, n) == found # <<>> /\ found[1] < n

\* Mutant of join: join() without its argument separates with commas.
RECURSIVE join_Comma(_)
join_Comma(arr) ==
    IF arr = <<>> THEN ""
    ELSE IF Len(arr) = 1 THEN arr[1]
    ELSE arr[1] \o "," \o join_Comma(Tail(arr))

\* Array.prototype.join(''): the items concatenated without separator.
RECURSIVE join(_)
join(arr) ==
    IF arr = <<>> THEN "" ELSE arr[1] \o join(Tail(arr))

-----------------------------------------------------------------------------
(* The checks of the six add operations *)

\* Mutant of elementCheck: examines the last recorded rank, not the first.
elementCheck_LastRank(callStack) ==
    LET checkCallStack ==
            IF callStack = <<>> THEN <<>> ELSE <<callStack[Len(callStack)]>>
    IN  IF StrictEquals(checkCallStack, 6) THEN DuplicateError
        ELSE IF LessThan(checkCallStack, 6) THEN OrderError
        ELSE NoError

\* Mutant of elementCheck: finds with <, as the repeatable categories do.
elementCheck_Less(callStack) ==
    LET checkCallStack == find(callStack, [i \in DOMAIN callStack |-> callStack[i] < 6])
    IN  IF StrictEquals(checkCallStack, 6) THEN DuplicateError
        ELSE IF LessThan(checkCallStack, 6) THEN OrderError
        ELSE NoError

elementCheck(callStack) ==
    LET checkCallStack == find(callStack, [i \in DOMAIN callStack |-> callStack[i] <= 6])
    IN  IF StrictEquals(checkCallStack, 6) THEN DuplicateError
        ELSE IF LessThan(checkCallStack, 6) THEN OrderError
        ELSE NoError

idCheck(callStack) ==
    LET checkCallStack == find(callStack, [i \in DOMAIN callStack |-> callStack[i] <= 5])
    IN  IF StrictEquals(checkCallStack, 5) THEN DuplicateError
        ELSE IF LessThan(checkCallStack, 5) THEN OrderError
        ELSE NoError

\* Mutant of classCheck: finds with <= as the singleton categories do.
classCheck_LessEq(callStack) ==
    LET checkCallStack == find(callStack, [i \in DOMAIN callStack |-> callStack[i] <= 4])
    IN  IF LessThan(checkCallStack, 4) THEN OrderError
        ELSE NoError

classCheck(callStack) ==
    LET checkCallStack == find(callStack, [i \in DOMAIN callStack |-> callStack[i] < 4])
    IN  IF LessThan(checkCallStack, 4) THEN OrderError
        ELSE NoError

\* Mutant of attrCheck: the threshold of pseudoClass.
attrCheck_Threshold2(callStack) ==
    LET checkCallStack == find(callStack, [i \in DOMAIN callStack |-> callStack[i] < 2])
    IN  IF LessThan(checkCallStack, 2) THEN OrderError
        ELSE NoError

attrCheck(callStack) ==
    LET checkCallStack == find(callStack, [i \in DOMAIN callStack |-> callStack[i] < 3])
    IN  IF LessThan(checkCallStack, 3) THEN OrderError
        ELSE NoError

pseudoClassCheck(callStack) ==
    LET checkCallStack == find(callStack, [i \in DOMAIN callStack |-> callStack[i] < 2])
    IN  IF LessThan(checkCallStack, 2) THEN OrderError
        ELSE NoError

\* Mutant of pseudoElementCheck: finds with <, so a recorded pseudo-element
\* is not found.
pseudoElementCheck_Less(callStack) ==
    LET checkCallStack == find(callStack, [i \in DOMAIN callStack |-> callStack[i] < 1])
    IN  IF StrictEquals(checkCallStack, 1) THEN DuplicateError
        ELSE IF LessThan(checkCallStack, 1) THEN OrderError
        ELSE NoError

\* Mutant of pseudoElementCheck: the two messages are exchanged.
pseudoElementCheck_Messages(callStack) ==
    LET checkCallStack == find(callStack, [i \in DOMAIN callStack |-> callStack[i] <= 1])
    IN  IF StrictEquals(checkCallStack, 1) THEN OrderError
        ELSE IF LessThan(checkCallStack, 1) THEN DuplicateError
        ELSE NoError

pseudoElementCheck(callStack) ==
    LET checkCallStack == find(callStack, [i \in DOMAIN callStack |-> callStack[i] <= 1])
    IN  IF StrictEquals(checkCallStack, 1) THEN DuplicateError
        ELSE IF LessThan(checkCallStack, 1) THEN OrderError
        ELSE NoError

\* const checkCallStack = callStack.find(...) of the add operation op: the
\* recorded rank its check examines.
checkCallStack(op, callStack) ==
    CASE op = "element" ->
            find(callStack, [i \in DOMAIN callStack |-> callStack[i] <= 6])
      [] op = "id" ->
            find(callStack, [i \in DOMAIN callStack |-> callStack[i] <= 5])
      [] op = "class" ->
            find(callStack, [i \in DOMAIN callStack |-> callStack[i] < 4])
      [] op = "attr" ->
            find(callStack, [i \in DOMAIN callStack |-> callStack[i] < 3])
      [] op = "pseudoClass" ->
            find(callStack, [i \in DOMAIN callStack |-> callStack[i] < 2])
      [] op = "pseudoElement" ->
            find(callStack, [i \in DOMAIN callStack |-> callStack[i] <= 1])

\* The check made by the add operation op on a copy of callStack.
check(op, callStack) ==
    CASE op = "element" -> elementCheck(callStack)
      [] op = "id" -> idCheck(callStack)
      [] op = "class" -> classCheck(callStack)
      [] op = "attr" -> attrCheck(callStack)
      [] op = "pseudoClass" -> pseudoClassCheck(callStack)
      [] op = "pseudoElement" -> pseudoElementCheck(callStack)

-----------------------------------------------------------------------------
(* Fragment rendering *)

elementFragment(value) == value
idFragment(value) == "#" \o value
classFragment(value) == "." \o value
attrFragment(value) == "[" \o value \o "]"
pseudoClassFragment(value) == ":" \o value
pseudoElementFragment(value) == "::" \o value

-----------------------------------------------------------------------------
(* Builders *)

\* stringify(): the fragments of the builder joined.
stringify(b) == join(arrays[builders[b].resultsArr])

Call(op, this, value, selector1, selector2) ==
    [op |-> op, this |-> this, value |-> value,
     selector1 |-> selector1, selector2 |-> selector2]

\* A call that ends in throw new Error(message): nothing was written.
Throw(call, message) ==
    /\ last' = [op |-> call.op, this |-> call.this, thrown |-> message,
                returned |-> 0, string |-> ""]
    /\ UNCHANGED <<arrays, builders, calls, rectangle, area>>

\* A call that ends in return new CssSelectorBuilder(callStack, resultsArr).
Return(call, heap, callStack, resultsArr) ==
    /\ Len(builders) < MaxBuilders
    /\ arrays' = heap
    /\ builders' = Append(builders, [callStack |-> callStack, resultsArr |-> resultsArr])
    /\ calls' = Append(calls, Append(calls[call.this], call))
    /\ last' = [op |-> call.op, this |-> call.this, thrown |-> NoError,
                returned |-> Len(builders) + 1, string |-> ""]
    /\ UNCHANGED <<rectangle, area>>

\* Mutant of add: pushes onto the receiver's own arrays before the check.
add_PushBeforeCheck(call, fragment, rank) ==
    LET this == call.this
        callStack == builders[this].callStack
        resultsArr == builders[this].resultsArr
        message == check(call.op, arrays[callStack])
        pushed == push(push(arrays, resultsArr, fragment), callStack, rank)
        c == slice(pushed, callStack)
        r == slice(c.heap, resultsArr)
    IN  IF message # NoError
        THEN /\ last' = [op |-> call.op, this |-> this, thrown |-> message,
                         returned |-> 0, string |-> ""]
             /\ arrays' = pushed
             /\ UNCHANGED <<builders, calls, rectangle, area>>
        ELSE Return(call, r.heap, c.ref, r.ref)

\* The body shared by the six add operations: copy both arrays, check the
\* copy of callStack, then push the fragment and the rank onto the copies.
add(call, fragment, rank) ==
    LET this == call.this
        c == slice(arrays, builders[this].callStack)
        r == slice(c.heap, builders[this].resultsArr)
        callStack == c.ref
        resultsArr == r.ref
        message == check(call.op, r.heap[callStack])
    IN  IF message # NoError
        THEN Throw(call, message)
        ELSE Return(call, push(push(r.heap, resultsArr, fragment), callStack, rank),
                    callStack, resultsArr)

element(this, value) ==
    add(Call("element", this, value, 0, 0), elementFragment(value), 6)

id(this, value) ==
    add(Call("id", this, value, 0, 0), idFragment(value), 5)

class(this, value) ==
    add(Call("class", this, value, 0, 0), classFragment(value), 4)

attr(this, value) ==
    add(Call("attr", this, value, 0, 0), attrFragment(value), 3)

pseudoClass(this, value) ==
    add(Call("pseudoClass", this, value, 0, 0), pseudoClassFragment(value), 2)

pseudoElement(this, value) ==
    add(Call("pseudoElement", this, value, 0, 0), pseudoElementFragment(value), 1)

\* Mutant of combineFragment: the spaces around the combinator are missing.
combineFragment_NoSpaces(selector1, combinator, selector2) ==
    stringify(selector1) \o combinator \o stringify(selector2)

combineFragment(selector1, combinator, selector2) ==
    stringify(selector1) \o " " \o combinator \o " " \o stringify(selector2)

\* Mutant of combine: the receiver's callStack is copied, as the add
\* operations do, where combine passes a new empty array.
combine_KeepsHistory(this, selector1, combinator, selector2) ==
    LET r == slice(arrays, builders[this].resultsArr)
        resultsArr == r.ref
        pushed == push(r.heap, resultsArr,
                       stringify(selector1) \o " " \o combinator \o " "
                           \o stringify(selector2))
        c == slice(pushed, builders[this].callStack)
    IN  Return(Call("combine", this, combinator, selector1, selector2),
               c.heap, c.ref, resultsArr)

\* Mutant of combine: the fragment is pushed onto the receiver's own
\* resultsArr, which is not copied.
combine_NoSlice(this, selector1, combinator, selector2) ==
    LET resultsArr == builders[this].resultsArr
        pushed == push(arrays, resultsArr,
                       stringify(selector1) \o " " \o combinator \o " "
                           \o stringify(selector2))
        e == emptyArray(pushed)
    IN  Return(Call("combine", this, combinator, selector1, selector2),
               e.heap, e.ref, resultsArr)

combine(this, selector1, combinator, selector2) ==
    LET r == slice(arrays, builders[this].resultsArr)
        resultsArr == r.ref
        pushed == push(r.heap, resultsArr, combineFragment(selector1, combinator, selector2))
        e == emptyArray(pushed)
    IN  Return(Call("combine", this, combinator, selector1, selector2),
               e.heap, e.ref, resultsArr)

\* Mutant of stringifyCall: the fragments are cleared once they are read.
stringifyCall_Resets(this) ==
    /\ last' = [op |-> "stringify", this |-> this, thrown |-> NoError,
                returned |-> 0, string |-> stringify(this)]
    /\ arrays' = [arrays EXCEPT ![builders[this].resultsArr] = <<>>]
    /\ UNCHANGED <<builders, calls, rectangle, area>>

stringifyCall(this) ==
    /\ last' = [op |-> "stringify", this |-> this, thrown |-> NoError,
                returned |-> 0, string |-> stringify(this)]
    /\ UNCHANGED <<arrays, builders, calls, rectangle, area>>

-----------------------------------------------------------------------------
(* The state machine *)

Builders == 1 .. Len(builders)

\* const cssSelectorBuilder = new CssSelectorBuilder(): builder 1, with the
\* two default-parameter arrays.
cssSelectorBuilder == 1

\* No Rectangle has been constructed.
NoRectangle == <<>>

Init ==
    /\ arrays = << <<>>, <<>> >>
    /\ builders = << [callStack |-> 1, resultsArr |-> 2] >>
    /\ calls = << <<>> >>
    /\ last = [op |-> "new", this |-> 1, thrown |-> NoError,
               returned |-> 1, string |-> ""]
    /\ rectangle = NoRectangle
    /\ area = <<>>

Element == \E this \in Builders, value \in Values : element(this, value)
Id == \E this \in Builders, value \in Values : id(this, value)
Class == \E this \in Builders, value \in Values : class(this, value)
Attr == \E this \in Builders, value \in Values : attr(this, value)
PseudoClass == \E this \in Builders, value \in Values : pseudoClass(this, value)
PseudoElement == \E this \in Builders, value \in Values : pseudoElement(this, value)
Combine ==
    \E this \in Builders, selector1 \in Builders, selector2 \in Builders,
       combinator \in Combinators :
        combine(this, selector1, combinator, selector2)
Stringify == \E this \in Builders : stringifyCall(this)

Next ==
    \/ Element
    \/ Id
    \/ Class
    \/ Attr
    \/ PseudoClass
    \/ PseudoElement
    \/ Combine
    \/ Stringify

Spec == Init /\ [][Next]_vars

-----------------------------------------------------------------------------
(* Rectangle *)

Sides == 0 .. MaxSide

\* new Rectangle(width, height): the fields this.width and this.height, and
\* the parameters width and height, which the arrow function has in scope.
Rectangle(width, height) ==
    [width |-> width, height |-> height,
     args |-> [width |-> width, height |-> height]]

\* Mutant of getArea: the product of the constructor's parameters.
getArea_OfParameters(r) == r.args.width * r.args.height

\* this.getArea = () => this.width * this.height
getArea(r) == r.width * r.height

RectangleCall(op) ==
    [op |-> op, this |-> 0, thrown |-> NoError, returned |-> 0, string |-> ""]

\* const r = new Rectangle(width, height), in the module as loaded.
RectangleInit ==
    /\ arrays = << <<>>, <<>> >>
    /\ builders = << [callStack |-> 1, resultsArr |-> 2] >>
    /\ calls = << <<>> >>
    /\ \E width \in Sides, height \in Sides : rectangle = Rectangle(width, height)
    /\ last = RectangleCall("Rectangle")
    /\ area = <<>>

\* r.width = width
SetWidth ==
    \E width \in Sides :
        /\ rectangle' = [rectangle EXCEPT !.width = width]
        /\ last' = RectangleCall("width")
        /\ UNCHANGED <<arrays, builders, calls, area>>

\* r.height = height
SetHeight ==
    \E height \in Sides :
        /\ rectangle' = [rectangle EXCEPT !.height = height]
        /\ last' = RectangleCall("height")
        /\ UNCHANGED <<arrays, builders, calls, area>>

\* r.getArea()
GetArea ==
    /\ area' = <<getArea(rectangle)>>
    /\ last' = RectangleCall("getArea")
    /\ UNCHANGED <<arrays, builders, calls, rectangle>>

RectangleNext ==
    \/ SetWidth
    \/ SetHeight
    \/ GetArea

RectangleSpec == RectangleInit /\ [][RectangleNext]_vars

-----------------------------------------------------------------------------
(* Vocabulary of the properties *)

\* The category ranks: element=6, id=5, class=4, attribute=3,
\* pseudo-class=2, pseudo-element=1.
Rank(op) ==
    CASE op = "element" -> 6
      [] op = "id" -> 5
      [] op = "class" -> 4
      [] op = "attr" -> 3
      [] op = "pseudoClass" -> 2
      [] op = "pseudoElement" -> 1

Singletons == {"element", "id", "pseudoElement"}

\* The rendered form of one add call: element -> value, id -> #value,
\* class -> .value, attr -> [value], pseudoClass -> :value,
\* pseudoElement -> ::value.
Rendered(call) ==
    CASE call.op = "element" -> call.value
      [] call.op = "id" -> "#" \o call.value
      [] call.op = "class" -> "." \o call.value
      [] call.op = "attr" -> "[" \o call.value \o "]"
      [] call.op = "pseudoClass" -> ":" \o call.value
      [] call.op = "pseudoElement" -> "::" \o call.value

RECURSIVE RenderedChain(_)
RenderedChain(chain) ==
    IF chain = <<>> THEN ""
    ELSE Rendered(Head(chain)) \o RenderedChain(Tail(chain))

IsAddChain(chain) == \A i \in DOMAIN chain : chain[i].op \in AddOps

Ranks(chain) == [i \in DOMAIN chain |-> Rank(chain[i].op)]

NonIncreasing(ranks) ==
    \A i \in DOMAIN ranks : \A j \in DOMAIN ranks : i < j => ranks[i] >= ranks[j]

AtMostOnce(chain, op) == Cardinality({i \in DOMAIN chain : chain[i].op = op}) <= 1

\* A sequence of add calls with non-increasing ranks in which element, id
\* and pseudoElement each occur at most once.
ValidChain(chain) ==
    /\ IsAddChain(chain)
    /\ NonIncreasing(Ranks(chain))
    /\ \A op \in Singletons : AtMostOnce(chain, op)

Items(arr) == {arr[i] : i \in DOMAIN arr}

CallStackOf(b) == arrays[builders[b].callStack]
ResultsArrOf(b) == arrays[builders[b].resultsArr]

\* How an add operation on builder b ends: the error it throws, or NoError.
Outcome(op, b) == check(op, CallStackOf(b))

\* The call that created builder b (b is not the initial builder).
CreatedBy(b) == calls[b][Len(calls[b])]

LastWasAdd == last.op \in AddOps

-----------------------------------------------------------------------------
(* Properties *)

\* C1: every chain of add calls from the initial empty builder whose ranks
\* are non-increasing and in which element, id and pseudoElement occur at
\* most once succeeds at every call, and stringify() on its final builder
\* returns the rendered forms of the calls concatenated in call order
\* without separators.
C1_ValidChainRenders ==
    /\ \A b \in Builders :
          ValidChain(calls[b]) => stringify(b) = RenderedChain(calls[b])
    /\ (LastWasAdd /\ ValidChain(Append(calls[last.this], [op |-> last.op]))) =>
          /\ last.thrown = NoError
          /\ last.returned \in Builders
          /\ CreatedBy(last.returned).op = last.op
          /\ calls[last.returned] = Append(calls[last.this], CreatedBy(last.returned))

\* C1 witness: id('a').class('a').class('a') was built and renders '#a.a.a'.
C1_Witness ==
    \E b \in Builders :
        /\ Len(calls[b]) = 3
        /\ calls[b][1].op = "id" /\ calls[b][1].value = "a"
        /\ calls[b][2].op = "class" /\ calls[b][2].value = "a"
        /\ calls[b][3].op = "class" /\ calls[b][3].value = "a"
        /\ last.returned = b /\ last.thrown = NoError
        /\ stringify(b) = "#a.a.a"

\* C2: an add operation of rank r fails with the order-violation error
\* whenever the receiver has recorded a rank strictly lower than r and has
\* not recorded r itself as a singleton; in particular the second call of a
\* two-call chain from the initial builder fails with the order-violation
\* error when its rank is strictly greater than the first call's.
C2_OrderViolation ==
    LastWasAdd =>
        LET r == Rank(last.op)
            recorded == Items(CallStackOf(last.this))
            chain == calls[last.this]
        IN  /\ ((\E q \in recorded : q < r)
                    /\ ~(last.op \in Singletons /\ r \in recorded))
                => last.thrown = OrderError
            /\ (Len(chain) = 1 /\ IsAddChain(chain) /\ Rank(chain[1].op) < r)
                => last.thrown = OrderError

\* C2 witness: id('a').element(..) ended with the order-violation error.
C2_Witness ==
    /\ last.op = "element"
    /\ last.thrown = OrderError
    /\ Len(calls[last.this]) = 1
    /\ calls[last.this][1].op = "id"

\* C3: element, id or pseudoElement on a builder that has already recorded
\* that category fails with the duplicate-category error, also when
\* lower-ranked categories were recorded in between; class, attr or
\* pseudoClass called directly after itself never fails.
C3_DuplicateCategory ==
    LastWasAdd =>
        LET chain == calls[last.this]
        IN  /\ (last.op \in Singletons /\ Rank(last.op) \in Items(CallStackOf(last.this)))
                => last.thrown = DuplicateError
            /\ (last.op \notin Singletons /\ chain # <<>>
                    /\ chain[Len(chain)].op = last.op)
                => last.thrown = NoError

\* C3 witness: element().id().element() ended with the duplicate error.
C3_Witness ==
    /\ last.op = "element"
    /\ last.thrown = DuplicateError
    /\ CallStackOf(last.this) = <<6, 5>>

\* C4: in every builder reachable by add operations and combine calls the
\* ranks recorded in callStack are non-increasing in append order.
C4_CallStackNonIncreasing ==
    \A b \in Builders : NonIncreasing(CallStackOf(b))

\* C4 witness: a builder that recorded id, class, class.
C4_Witness ==
    \E b \in Builders : CallStackOf(b) = <<5, 4, 4>>

\* A step leaves builder b as it was: the same array references, holding
\* the same items.
Untouched(b) ==
    /\ builders'[b] = builders[b]
    /\ arrays'[builders[b].callStack] = arrays[builders[b].callStack]
    /\ arrays'[builders[b].resultsArr] = arrays[builders[b].resultsArr]

\* C5: every successful add operation returns a new builder and leaves the
\* fragments and the category history of the receiver (and of every other
\* builder) as they were; the shared initial builder cssSelectorBuilder
\* never has fragments or recorded ranks.
C5_AddReturnsNewBuilder ==
    /\ [](ResultsArrOf(cssSelectorBuilder) = <<>> /\ CallStackOf(cssSelectorBuilder) = <<>>)
    /\ [][(last'.op \in AddOps /\ last'.thrown = NoError) =>
            /\ last'.returned \notin Builders
            /\ last'.returned \in DOMAIN builders'
            /\ builders'[last'.returned].callStack
                   \notin {builders[b].callStack : b \in Builders}
            /\ builders'[last'.returned].resultsArr
                   \notin {builders[b].resultsArr : b \in Builders}
            /\ \A b \in Builders : Untouched(b)]_vars

\* C5 witness: an add operation succeeded on the shared initial builder
\* after three other builders had been derived.
C5_Witness ==
    /\ LastWasAdd
    /\ last.thrown = NoError
    /\ last.this = cssSelectorBuilder
    /\ last.returned = MaxBuilders
    /\ \E b \in Builders : calls[b] # <<>> /\ CreatedBy(b).op = "combine"

\* C6: an add operation that fails alters no builder state: the fragments
\* and category histories of all builders are unchanged, stringify() on the
\* receiver returns what it returned before, and every add operation that
\* would have succeeded on the receiver before the failed call still
\* succeeds (on unchanged arrays, so with the same result).
C6_FailedAddAltersNothing ==
    [][(last'.op \in AddOps /\ last'.thrown # NoError) =>
          /\ builders' = builders
          /\ arrays' = arrays
          /\ \A this \in Builders :
                last'.this = this =>
                    /\ stringify(this)' = stringify(this)
                    /\ \A op \in AddOps :
                          Outcome(op, this) = NoError => Outcome(op, this)' = NoError]_vars

\* C6 witness: an add operation failed on a builder holding two fragments.
C6_Witness ==
    /\ LastWasAdd
    /\ last.thrown = OrderError
    /\ Len(ResultsArrOf(last.this)) = 2

\* C7: combine(a, c, b) invoked on the shared initial empty builder returns
\* a builder whose stringify() is a.stringify() + ' ' + c + ' ' +
\* b.stringify(), and combine never fails.
C7_CombineRenders ==
    last.op = "combine" =>
        /\ last.thrown = NoError
        /\ last.returned \in Builders
        /\ CreatedBy(last.returned).op = "combine"
        /\ last.this = cssSelectorBuilder =>
              LET c == CreatedBy(last.returned)
              IN  stringify(last.returned) =
                      stringify(c.selector1) \o " " \o c.value \o " "
                          \o stringify(c.selector2)

\* C7 witness: combine(combine(a, '+', a), ' ', a) on the initial builder,
\* with a = element('a'): three spaces between the operands.
C7_Witness ==
    /\ last.op = "combine"
    /\ last.this = cssSelectorBuilder
    /\ CreatedBy(last.returned).value = " "
    /\ stringify(last.returned) = "a + a   a"

\* C8: whatever builder combine is invoked on, the builder it returns
\* holds exactly one fragment, '<left.stringify()> <combinator>
\* <right.stringify()>', and an empty category history.
C8_CombineHoldsOneFragment ==
    (last.op = "combine" /\ last.thrown = NoError) =>
        LET c == CreatedBy(last.returned)
        IN  /\ ResultsArrOf(last.returned) =
                  << stringify(c.selector1) \o " " \o c.value \o " "
                         \o stringify(c.selector2) >>
            /\ CallStackOf(last.returned) = <<>>

\* The ranks of the add calls made since the last combine of a chain.
RECURSIVE RanksSinceCombine(_)
RanksSinceCombine(chain) ==
    IF chain = <<>> \/ chain[Len(chain)].op = "combine" THEN <<>>
    ELSE Append(RanksSinceCombine(SubSeq(chain, 1, Len(chain) - 1)),
                Rank(chain[Len(chain)].op))

\* What the ranks recorded so far allow for an add of category op: the
\* duplicate error for a recorded singleton, else the order-violation error
\* when a lower rank is recorded, else success.
Allowed(ranks, op) ==
    IF op \in Singletons /\ Rank(op) \in Items(ranks) THEN DuplicateError
    ELSE IF \E q \in Items(ranks) : q < Rank(op) THEN OrderError
    ELSE NoError

\* C9: the builder returned by combine carries no ordering or duplicate
\* constraint from its operands' histories: each of the six add operations
\* succeeds as the first add on it, and later adds are constrained only by
\* the ranks recorded after the combine.
C9_CombineResetsConstraints ==
    /\ \A b \in Builders :
          (calls[b] # <<>> /\ CreatedBy(b).op = "combine") =>
              \A op \in AddOps : Outcome(op, b) = NoError
    /\ LastWasAdd =>
          last.thrown = Allowed(RanksSinceCombine(calls[last.this]), last.op)

\* C9 witness: element succeeded as the first add on combine(a, c, b) where
\* a had recorded an element.
C9_Witness ==
    /\ last.op = "element"
    /\ last.thrown = NoError
    /\ LET chain == calls[last.this]
       IN  /\ chain # <<>>
           /\ chain[Len(chain)].op = "combine"
           /\ 6 \in Items(CallStackOf(chain[Len(chain)].selector1))

\* C10: combine leaves both operands and the receiver (and every other
\* builder) unchanged: the same fragments and category history, the same
\* stringify() result, and every add operation ends on them as before.
C10_CombineLeavesOperands ==
    [][last'.op = "combine" =>
          \A b \in Builders :
              /\ Untouched(b)
              /\ stringify(b)' = stringify(b)
              /\ \A op \in AddOps : Outcome(op, b)' = Outcome(op, b)]_vars

\* C10 witness: combine was invoked on a builder holding a fragment, with
\* that builder as its left operand.
C10_Witness ==
    /\ last.op = "combine"
    /\ last.thrown = NoError
    /\ ResultsArrOf(last.this) # <<>>
    /\ CallStackOf(last.this) # <<>>
    /\ CreatedBy(last.returned).selector1 = last.this

\* C11: stringify() is a pure read: it returns the fragments joined, a
\* second call returns the same string, it changes neither fragments nor
\* category history of any builder, and every add operation ends on the
\* receiver as it would have ended without the call.
C11_StringifyIsPureRead ==
    [][last'.op = "stringify" =>
          /\ builders' = builders
          /\ arrays' = arrays
          /\ \A this \in Builders :
                last'.this = this =>
                    /\ last'.string = stringify(this)
                    /\ stringify(this)' = last'.string
                    /\ \A op \in AddOps : Outcome(op, this)' = Outcome(op, this)]_vars

\* C11 witness: stringify() returned 'a#a' on element('a').id('a').
C11_Witness ==
    /\ last.op = "stringify"
    /\ last.string = "a#a"
    /\ CallStackOf(last.this) = <<6, 5>>

\* What a chain of calls says, whatever builders carried it out: the
\* methods and arguments in call order, with the chains of the operands of
\* each combine.
RECURSIVE Signature(_)
Signature(chain) ==
    [i \in DOMAIN chain |->
        IF chain[i].op = "combine"
        THEN [op |-> "combine", value |-> chain[i].value,
              selector1 |-> Signature(calls[chain[i].selector1]),
              selector2 |-> Signature(calls[chain[i].selector2])]
        ELSE [op |-> chain[i].op, value |-> chain[i].value,
              selector1 |-> <<>>, selector2 |-> <<>>]]

\* C12: call chains that branch from the same builder do not interfere:
\* whatever other calls were made in between, a chain ends in a builder with
\* the same fragments and category history (so the same stringify() result),
\* and each call ends (success or error kind) as the same call on any other
\* builder that the same chain built.
C12_ChainsDoNotInterfere ==
    /\ \A b1 \in Builders : \A b2 \in Builders :
          Signature(calls[b1]) = Signature(calls[b2]) =>
              /\ CallStackOf(b1) = CallStackOf(b2)
              /\ ResultsArrOf(b1) = ResultsArrOf(b2)
              /\ stringify(b1) = stringify(b2)
    /\ LastWasAdd =>
          \A b \in Builders :
              Signature(calls[b]) = Signature(calls[last.this]) =>
                  Outcome(last.op, b) = last.thrown

\* C12 witness: two chains branched from id('a'): class('a') was called on
\* it twice, with the results '#a.a' both times.
C12_Witness ==
    \E b1 \in Builders : \E b2 \in Builders :
        /\ b1 < b2
        /\ Len(calls[b1]) = 2
        /\ calls[b1][1].op = "id"
        /\ CreatedBy(b1).op = "class"
        /\ CreatedBy(b2).op = "class"
        /\ CreatedBy(b1).this = CreatedBy(b2).this
        /\ stringify(b1) = "#a.a"
        /\ stringify(b2) = "#a.a"

\* C13: getArea() returns width x height of the object's field values at
\* the time of the call: after width or height is reassigned, the product
\* of the new values, not the product of the values given at construction.
C13_GetAreaReadsCurrentFields ==
    last.op = "getArea" => area = <<rectangle.width * rectangle.height>>

\* C13 witness: a Rectangle both of whose fields were reassigned returned
\* the area 6, which is not the product of its constructor's arguments.
C13_Witness ==
    /\ last.op = "getArea"
    /\ area = <<6>>
    /\ rectangle.width # rectangle.args.width
    /\ rectangle.height # rectangle.args.height
    /\ rectangle.args.width * rectangle.args.height # 6

\* The abstract machine of the design: its state is the fragments so far,
\* the minimum rank seen so far (<<>> while no rank was seen) and the set
\* of singleton ranks seen.
AbstractInit == [fragments |-> <<>>, minRank |-> <<>>, singletons |-> {}]

\* How the abstract machine ends an add of category op: duplicate if the
\* singleton rank is in the set, else order violation if the minimum rank
\* seen is below the category's rank, else success.
AbstractOutcome(a, op) ==
    IF op \in Singletons /\ Rank(op) \in a.singletons THEN DuplicateError
    ELSE IF a.minRank # <<>> /\ a.minRank[1] < Rank(op) THEN OrderError
    ELSE NoError

AbstractAdd(a, call) ==
    [fragments |-> Append(a.fragments, Rendered(call)),
     minRank |-> <<Rank(call.op)>>,
     singletons |-> IF call.op \in Singletons
                    THEN a.singletons \cup {Rank(call.op)}
                    ELSE a.singletons]

\* The abstract state a chain of successful calls leads to; combine starts
\* a state with the one combined fragment and no history.
RECURSIVE AbstractOf(_)
AbstractOf(chain) ==
    IF chain = <<>> THEN AbstractInit
    ELSE LET call == chain[Len(chain)]
             before == AbstractOf(SubSeq(chain, 1, Len(chain) - 1))
         IN  IF call.op = "combine"
             THEN [fragments |->
                       << join(AbstractOf(calls[call.selector1]).fragments)
                              \o " " \o call.value \o " "
                              \o join(AbstractOf(calls[call.selector2]).fragments) >>,
                   minRank |-> <<>>,
                   singletons |-> {}]
             ELSE AbstractAdd(before, call)

\* C14: the builder refines the abstract machine: every add ends with the
\* outcome and error kind the abstract machine gives, and the fragments
\* (and so the result of stringify) agree at every step.
C14_RefinesAbstractMachine ==
    /\ \A b \in Builders : ResultsArrOf(b) = AbstractOf(calls[b]).fragments
    /\ LastWasAdd =>
          last.thrown = AbstractOutcome(AbstractOf(calls[last.this]), last.op)
    /\ last.op = "stringify" =>
          last.string = join(AbstractOf(calls[last.this]).fragments)

\* stringify and combine end without an error.
ReadAndCombineSucceed ==
    last.op \in {"stringify", "combine"} => last.thrown = NoError

\* C15 as claimed: no reachable builder is terminal: stringify succeeds,
\* combine succeeds, and at least one of the six add operations succeeds on
\* every builder.
C15_NoTerminalBuilder ==
    /\ ReadAndCombineSucceed
    /\ \A b \in Builders : \E op \in AddOps : Outcome(op, b) = NoError

\* C15 as amended: stringify and combine succeed on every builder, and at
\* least one of the six add operations succeeds on a builder exactly when
\* it has not recorded a pseudo-element.
C15_ExtensibleUnlessPseudoElement ==
    /\ ReadAndCombineSucceed
    /\ \A b \in Builders :
          (\E op \in AddOps : Outcome(op, b) = NoError)
              <=> 1 \notin Items(CallStackOf(b))

\* C15 witness: stringify() succeeded on a builder that recorded a
\* pseudo-element, on which no add operation succeeds.
C15_Witness ==
    /\ last.op = "stringify"
    /\ last.thrown = NoError
    /\ 1 \in Items(CallStackOf(last.this))
    /\ \A op \in AddOps : Outcome(op, last.this) # NoError

\* The recorded ranks the check of op looks for: those <= the rank of op
\* for the singleton categories, those < it for the others.
Candidates(op, callStack) ==
    {q \in Items(callStack) :
        IF op \in Singletons THEN q <= Rank(op) ELSE q < Rank(op)}

Minimum(S) == CHOOSE q \in S : \A p \in S : q <= p
Maximum(S) == CHOOSE q \in S : \A p \in S : q >= p

\* The outcome the examined rank decides: none examined is success, the
\* category's own rank is the duplicate error, a lower one the order error.
DecidedBy(examined, op) ==
    IF examined = <<>> THEN NoError
    ELSE IF examined[1] = Rank(op) THEN DuplicateError
    ELSE OrderError

\* C16 as claimed: the rank an add operation examines is the minimum
\* recorded rank that is <= the category's rank (< for the non-singleton
\* categories), and that rank alone decides the outcome.
C16_ExaminesMinimumRank ==
    LastWasAdd =>
        LET callStack == CallStackOf(last.this)
            S == Candidates(last.op, callStack)
            examined == IF S = {} THEN <<>> ELSE <<Minimum(S)>>
        IN  /\ checkCallStack(last.op, callStack) = examined
            /\ last.thrown = DecidedBy(examined, last.op)

\* C16 as amended: the rank an add operation examines is the first such
\* rank in append order, which is the maximum recorded rank that is <= the
\* category's rank (< for the non-singleton categories), and that rank
\* alone decides the outcome.
C16_ExaminesFirstRank ==
    LastWasAdd =>
        LET callStack == CallStackOf(last.this)
            S == Candidates(last.op, callStack)
            first == Minimum({i \in DOMAIN callStack : callStack[i] \in S})
            examined == IF S = {} THEN <<>> ELSE <<Maximum(S)>>
        IN  /\ checkCallStack(last.op, callStack) = examined
            /\ S # {} => callStack[first] = Maximum(S)
            /\ last.thrown = DecidedBy(examined, last.op)

\* C16 witness: id on id().class(): the ranks 5 and 4 are both <= 5, the
\* rank examined is 5 and the call ends with the duplicate error.
C16_Witness ==
    /\ last.op = "id"
    /\ CallStackOf(last.this) = <<5, 4>>
    /\ checkCallStack("id", CallStackOf(last.this)) = <<5>>
    /\ last.thrown = DuplicateError

\* C17: element succeeds if and only if the receiver's category history is
\* empty; otherwise it fails with the duplicate error when the first
\* recorded rank is element and with the order-violation error when not.
C17_ElementNeedsEmptyHistory ==
    /\ \A b \in Builders :
          Outcome("element", b) = NoError <=> CallStackOf(b) = <<>>
    /\ last.op = "element" =>
          LET callStack == CallStackOf(last.this)
          IN  last.thrown = IF callStack = <<>> THEN NoError
                            ELSE IF callStack[1] = 6 THEN DuplicateError
                            ELSE OrderError

\* C17 witness: element failed with the order-violation error on a builder
\* whose first recorded rank is id.
C17_Witness ==
    /\ last.op = "element"
    /\ last.thrown = OrderError
    /\ CallStackOf(last.this) = <<5, 4>>

\* C18: no rank below 1 is recorded, so pseudoElement never fails with the
\* order-violation error; it fails, with the duplicate error, exactly when
\* the receiver has recorded a pseudo-element, and on a builder that has
\* recorded a pseudo-element every add operation fails.
C18_PseudoElementIsLast ==
    /\ \A b \in Builders :
          /\ \A q \in Items(CallStackOf(b)) : q >= 1
          /\ 1 \in Items(CallStackOf(b)) =>
                \A op \in AddOps : Outcome(op, b) # NoError
    /\ last.op = "pseudoElement" =>
          /\ last.thrown # OrderError
          /\ last.thrown = DuplicateError <=> 1 \in Items(CallStackOf(last.this))
    /\ (LastWasAdd /\ 1 \in Items(CallStackOf(last.this))) =>
          last.thrown # NoError

\* C18 witness: pseudoElement failed with the duplicate error on
\* class().pseudoElement().
C18_Witness ==
    /\ last.op = "pseudoElement"
    /\ last.thrown = DuplicateError
    /\ CallStackOf(last.this) = <<4, 1>>

=============================================================================
